---- MODULE Spec2Model ----
(***************************************************************************)
(* better-returns: the Option module (src/src/option.ts) and the Result    *)
(* module (src/src/result.ts).                                             *)
(*                                                                         *)
(* The library keeps no state of its own, so the state is that of a client *)
(* using it: the heap of objects the client holds (instances built by the  *)
(* factories and the combinators, and the arrays handed to or returned by  *)
(* `all`), a record of the library call it has just made, and the number   *)
(* of objects it is prepared to hold.  An object's address is its index in *)
(* the heap, so "the same instance" is "the same address".                 *)
(***************************************************************************)
EXTENDS Integers, Sequences, FiniteSets, TLC

VARIABLES heap, call, cap

vars == <<heap, call, cap>>

\* ---------------------------------------------------------------- bounds
MaxVal == 1
MaxHeap == 3
MaxLen == 3

\* ---------------------------------------------------------------- values
\* A JavaScript value is a primitive number or a reference to a heap object.
Num(n) == [num |-> n]
Ref(a) == [ref |-> a]
IsNum(v) == DOMAIN v = {"num"}
IsRef(v) == DOMAIN v = {"ref"}
Nums == {Num(n) : n \in 0..MaxVal}
Bool(b) == [bool |-> b]

NoFn == [name |-> "-", ref |-> 0]

\* What one library call hands back to the action that made it: the heap
\* after the call, the returned value, and the arguments and results of the
\* invocations of the caller-supplied function, in order.
Outcome(h, ret, calls, rets) ==
    [heap |-> h, ret |-> ret, calls |-> calls, rets |-> rets]

\* ----------------------------------------------------- heap classification
ResultRefs(h) == {a \in DOMAIN h : h[a].type \in {"ok", "err"}}
OptionRefs(h) == {a \in DOMAIN h : h[a].type \in {"some", "none"}}
ArrayRefs(h) == {a \in DOMAIN h : h[a].type = "array"}

\* ------------------------------------------------ caller-supplied functions
\* x => (x + 1) % (MaxVal + 1) on numbers
succ(v) == Num((v.num + 1) % (MaxVal + 1))

\* ------------------------------------------------------------ result.ts
ok(h, value) ==
    Outcome(Append(h, [type |-> "ok", value |-> value]), Ref(Len(h) + 1), <<>>, <<>>)

err(h, value) ==
    Outcome(Append(h, [type |-> "err", value |-> value]), Ref(Len(h) + 1), <<>>, <<>>)

is_ok(h, result) == h[result].type = "ok"

\* Faulty variant: the negation is missing.
is_err_plain(h, result) == is_ok(h, result)

is_err(h, result) == ~is_ok(h, result)

\* The callbacks the client passes to map / map_error / then.  A callback is
\* named by what it does; "capture" is a closure returning an instance the
\* client already holds (() => r).
CallFn(h, fn, v) ==
    CASE fn.name = "succ"      -> [heap |-> h, ret |-> succ(v)]
      [] fn.name = "zero"      -> [heap |-> h, ret |-> Num(0)]
      [] fn.name = "ok_succ"   -> LET o == ok(h, succ(v)) IN [heap |-> o.heap, ret |-> o.ret]
      [] fn.name = "err_of"    -> LET o == err(h, v) IN [heap |-> o.heap, ret |-> o.ret]
      [] fn.name = "some_succ" ->
            [heap |-> Append(h, [type |-> "some", value |-> succ(v)]), ret |-> Ref(Len(h) + 1)]
      [] fn.name = "to_none"   ->
            [heap |-> Append(h, [type |-> "none"]), ret |-> Ref(Len(h) + 1)]
      [] fn.name = "capture"   -> [heap |-> h, ret |-> Ref(fn.ref)]

\* The parameter type of the callback admits the payload (TypeScript checks
\* the callback against the container's payload type).
Accepts(fn, v) == fn.name \in {"succ", "ok_succ", "some_succ"} => IsNum(v)

MapFns == {[name |-> n, ref |-> 0] : n \in {"succ", "zero"}}

ResultThenFns(h) ==
    {[name |-> n, ref |-> 0] : n \in {"ok_succ", "err_of"}}
        \cup {[name |-> "capture", ref |-> a] : a \in ResultRefs(h)}

OptionThenFns(h) ==
    {[name |-> n, ref |-> 0] : n \in {"some_succ", "to_none"}}
        \cup {[name |-> "capture", ref |-> a] : a \in OptionRefs(h)}

result_unwrap(h, result, with_default) ==
    Outcome(h, IF h[result].type = "ok" THEN h[result].value ELSE with_default, <<>>, <<>>)

unwrap_error(h, result, with_default) ==
    Outcome(h, IF h[result].type = "err" THEN h[result].value ELSE with_default, <<>>, <<>>)

\* Faulty variant: the success payload is overwritten in place (the `value`
\* field of Ok is not readonly) and the argument itself is returned.
result_map_in_place(h, result, apply) ==
    IF h[result].type = "ok"
    THEN LET c == CallFn(h, apply, h[result].value)
         IN  Outcome([c.heap EXCEPT ![result].value = c.ret], Ref(result),
                     <<h[result].value>>, <<c.ret>>)
    ELSE Outcome(h, Ref(result), <<>>, <<>>)

result_map(h, result, apply) ==
    IF h[result].type = "ok"
    THEN LET c == CallFn(h, apply, h[result].value)
             o == ok(c.heap, c.ret)
         IN  Outcome(o.heap, o.ret, <<h[result].value>>, <<c.ret>>)
    ELSE Outcome(h, Ref(result), <<>>, <<>>)

\* Faulty variant: the callback is called before the tag is looked at.
map_error_eager(h, result, apply) ==
    LET c == CallFn(h, apply, h[result].value)
    IN  IF h[result].type = "err"
        THEN LET o == err(c.heap, c.ret)
             IN  Outcome(o.heap, o.ret, <<h[result].value>>, <<c.ret>>)
        ELSE Outcome(h, Ref(result), <<h[result].value>>, <<c.ret>>)

\* Faulty variant: the mapped error comes back wrapped by ok() (the body of
\* `map` copied without changing the factory).
map_error_as_ok(h, result, apply) ==
    IF h[result].type = "err"
    THEN LET c == CallFn(h, apply, h[result].value)
             o == ok(c.heap, c.ret)
         IN  Outcome(o.heap, o.ret, <<h[result].value>>, <<c.ret>>)
    ELSE Outcome(h, Ref(result), <<>>, <<>>)

map_error(h, result, apply) ==
    IF h[result].type = "err"
    THEN LET c == CallFn(h, apply, h[result].value)
             o == err(c.heap, c.ret)
         IN  Outcome(o.heap, o.ret, <<h[result].value>>, <<c.ret>>)
    ELSE Outcome(h, Ref(result), <<>>, <<>>)

\* Faulty variant: the tag is not looked at.
replace_always(h, result, value) == ok(h, value)

\* Faulty variant: the Err case is rebuilt with err() instead of being
\* returned as it is.
replace_copy(h, result, value) ==
    IF h[result].type = "ok" THEN ok(h, value) ELSE err(h, h[result].value)

replace(h, result, value) ==
    IF h[result].type = "ok" THEN ok(h, value) ELSE Outcome(h, Ref(result), <<>>, <<>>)

\* Faulty variant: the new Err is built from the old payload and the given
\* value is dropped.
replace_error_keep(h, result, value) ==
    IF h[result].type = "err" THEN err(h, h[result].value)
    ELSE Outcome(h, Ref(result), <<>>, <<>>)

replace_error(h, result, value) ==
    IF h[result].type = "err" THEN err(h, value) ELSE Outcome(h, Ref(result), <<>>, <<>>)

\* Faulty variant: the first error is kept when both fail.
or_keep_left(h, left, right) ==
    IF is_ok(h, left) \/ ~is_ok(h, right) THEN Outcome(h, Ref(left), <<>>, <<>>)
    ELSE Outcome(h, Ref(right), <<>>, <<>>)

or(h, left, right) ==
    IF is_ok(h, left) THEN Outcome(h, Ref(left), <<>>, <<>>)
    ELSE Outcome(h, Ref(right), <<>>, <<>>)

\* Faulty variant: the callback is applied to the payload whatever the tag.
result_then_any(h, result, apply) ==
    LET c == CallFn(h, apply, h[result].value)
    IN  Outcome(c.heap, c.ret, <<h[result].value>>, <<c.ret>>)

result_then(h, result, apply) ==
    IF h[result].type = "ok"
    THEN LET c == CallFn(h, apply, h[result].value)
         IN  Outcome(c.heap, c.ret, <<h[result].value>>, <<c.ret>>)
    ELSE Outcome(h, Ref(result), <<>>, <<>>)

\* Faulty variant: the element is looked at before the accumulator, so a
\* later Err replaces an earlier one.
result_all_step_last(acc, result) ==
    IF result.type = "err" THEN [type |-> "err", value |-> result.value]
    ELSE IF acc.type = "err" THEN acc
    ELSE [type |-> "ok", value |-> Append(acc.value, result.value)]

\* The reducer of `all`.  The accumulator is an object local to the call: it
\* is held here by value, its `value` being the contents of the array the
\* spread [...acc.value, result.value] builds afresh at every step.
result_all_step(acc, result) ==
    IF acc.type = "err" THEN acc
    ELSE IF result.type = "err" THEN [type |-> "err", value |-> result.value]
    ELSE [type |-> "ok", value |-> Append(acc.value, result.value)]

RECURSIVE result_reduce(_, _, _, _)
result_reduce(h, items, i, acc) ==
    IF i > Len(items) THEN acc
    ELSE result_reduce(h, items, i + 1, result_all_step(acc, h[items[i].ref]))

\* The object the fold ends with becomes reachable by the caller: an Ok
\* accumulator as its array and the instance holding it, an Err as the
\* instance err() made.  The accumulators of the earlier steps are garbage.
result_all(h, list) ==
    LET acc == result_reduce(h, h[list].items, 1, [type |-> "ok", value |-> <<>>])
    IN  IF acc.type = "ok"
        THEN LET h1 == Append(h, [type |-> "array", items |-> acc.value])
             IN  Outcome(Append(h1, [type |-> "ok", value |-> Ref(Len(h1))]),
                         Ref(Len(h1) + 1), <<>>, <<>>)
        ELSE err(h, acc.value)

\* ------------------------------------------------------------ option.ts
Some(h, value) ==
    Outcome(Append(h, [type |-> "some", value |-> value]), Ref(Len(h) + 1), <<>>, <<>>)

None(h) ==
    Outcome(Append(h, [type |-> "none"]), Ref(Len(h) + 1), <<>>, <<>>)

is_some(h, option) == h[option].type = "some"

is_none(h, option) == ~is_some(h, option)

\* Faulty variant: option.value || with_default, which drops a falsy payload.
option_unwrap_truthy(h, option, with_default) ==
    Outcome(h, IF h[option].type = "some" /\ h[option].value # Num(0)
               THEN h[option].value ELSE with_default, <<>>, <<>>)

option_unwrap(h, option, with_default) ==
    Outcome(h, IF h[option].type = "some" THEN h[option].value ELSE with_default, <<>>, <<>>)

option_map(h, option, predicate) ==
    IF h[option].type = "some"
    THEN LET c == CallFn(h, predicate, h[option].value)
         IN  Outcome(Append(c.heap, [type |-> "some", value |-> c.ret]),
                     Ref(Len(c.heap) + 1), <<h[option].value>>, <<c.ret>>)
    ELSE Outcome(Append(h, [type |-> "none"]), Ref(Len(h) + 1), <<>>, <<>>)

\* Faulty variant: what the callback returns is wrapped again, as `map` does.
option_then_wrap(h, option, apply) ==
    IF h[option].type = "some"
    THEN LET c == CallFn(h, apply, h[option].value)
         IN  Outcome(Append(c.heap, [type |-> "some", value |-> c.ret]),
                     Ref(Len(c.heap) + 1), <<h[option].value>>, <<c.ret>>)
    ELSE Outcome(Append(h, [type |-> "none"]), Ref(Len(h) + 1), <<>>, <<>>)

option_then(h, option, apply) ==
    IF h[option].type = "some"
    THEN LET c == CallFn(h, apply, h[option].value)
         IN  Outcome(c.heap, c.ret, <<h[option].value>>, <<c.ret>>)
    ELSE Outcome(Append(h, [type |-> "none"]), Ref(Len(h) + 1), <<>>, <<>>)

\* Faulty variant: only the element is tested, so the fold starts over after
\* a None.
option_all_step_restart(acc, option) ==
    IF option.type = "none" THEN [type |-> "none"]
    ELSE IF acc.type = "none" THEN [type |-> "some", value |-> <<option.value>>]
    ELSE [type |-> "some", value |-> Append(acc.value, option.value)]

option_all_step(acc, option) ==
    IF option.type = "none" \/ acc.type = "none" THEN [type |-> "none"]
    ELSE [type |-> "some", value |-> Append(acc.value, option.value)]

RECURSIVE option_reduce(_, _, _, _)
option_reduce(h, items, i, acc) ==
    IF i > Len(items) THEN acc
    ELSE option_reduce(h, items, i + 1, option_all_step(acc, h[items[i].ref]))

option_all(h, list) ==
    LET acc == option_reduce(h, h[list].items, 1, [type |-> "some", value |-> <<>>])
    IN  IF acc.type = "some"
        THEN LET h1 == Append(h, [type |-> "array", items |-> acc.value])
             IN  Outcome(Append(h1, [type |-> "some", value |-> Ref(Len(h1))]),
                         Ref(Len(h1) + 1), <<>>, <<>>)
        ELSE Outcome(Append(h, [type |-> "none"]), Ref(Len(h) + 1), <<>>, <<>>)

\* ------------------------------------------------------------ the client
\* An array literal of instances the client holds, as the tests build the
\* argument of `all`.
array_of(h, items) ==
    Outcome(Append(h, [type |-> "array", items |-> items]), Ref(Len(h) + 1), <<>>, <<>>)

\* The lists of at most MaxLen distinct instances among `refs`.
Min(a, b) == IF a < b THEN a ELSE b

ListsOver(refs) ==
    {items \in UNION {[1..n -> {Ref(a) : a \in refs}] :
                         n \in 0..Min(MaxLen, Cardinality(refs))} :
        \A i, j \in DOMAIN items : items[i] = items[j] => i = j}

ResultLists(h) == {a \in ArrayRefs(h) : \A i \in DOMAIN h[a].items :
                      IsRef(h[a].items[i]) /\ h[a].items[i].ref \in ResultRefs(h)}

OptionLists(h) == {a \in ArrayRefs(h) : \A i \in DOMAIN h[a].items :
                      IsRef(h[a].items[i]) /\ h[a].items[i].ref \in OptionRefs(h)}

\* The payload the callback would be invoked with, when it is invoked.
Typed(h, a, fn, tag) == h[a].type = tag => Accepts(fn, h[a].value)

\* The client between two calls.
Idle == [op |-> "idle", args |-> <<>>, fn |-> NoFn, ret |-> Num(0),
         calls |-> <<>>, rets |-> <<>>, pre |-> <<>>]

\* One library call: the heap becomes the call's heap, and the call is
\* recorded with the heap it started from.
Do(op, args, fn, out) ==
    /\ call = Idle
    /\ Len(out.heap) <= cap
    /\ heap' = out.heap
    /\ call' = [op |-> op, args |-> args, fn |-> fn, ret |-> out.ret,
                calls |-> out.calls, rets |-> out.rets, pre |-> heap]
    /\ UNCHANGED cap

Init ==
    /\ heap = <<>>
    /\ call = Idle
    /\ cap = MaxHeap

\* The two modules are independent (neither imports the other): a client heap
\* holds instances of one of them.  A list is built to be handed to `all`, so
\* only while there is room for it and for the instance `all` returns.
CallOk == \E v \in Nums :
    OptionRefs(heap) = {} /\ Do("ok", <<v>>, NoFn, ok(heap, v))

CallErr == \E v \in Nums :
    OptionRefs(heap) = {} /\ Do("err", <<v>>, NoFn, err(heap, v))

CallIsOk == \E r \in ResultRefs(heap) :
    Do("is_ok", <<Ref(r)>>, NoFn, Outcome(heap, Bool(is_ok(heap, r)), <<>>, <<>>))

CallIsErr == \E r \in ResultRefs(heap) :
    Do("is_err", <<Ref(r)>>, NoFn, Outcome(heap, Bool(is_err(heap, r)), <<>>, <<>>))

CallResultList ==
    /\ OptionRefs(heap) = {}
    /\ Len(heap) + 2 <= cap
    /\ \E items \in ListsOver(ResultRefs(heap)) :
          Do("result.list", items, NoFn, array_of(heap, items))

CallResultUnwrap == \E r \in ResultRefs(heap), d \in Nums :
    Do("result.unwrap", <<Ref(r), d>>, NoFn, result_unwrap(heap, r, d))

CallUnwrapError == \E r \in ResultRefs(heap), d \in Nums :
    Do("unwrap_error", <<Ref(r), d>>, NoFn, unwrap_error(heap, r, d))

CallResultMap == \E r \in ResultRefs(heap), f \in MapFns :
    Typed(heap, r, f, "ok") /\ Do("result.map", <<Ref(r)>>, f, result_map(heap, r, f))

CallMapError == \E r \in ResultRefs(heap), f \in MapFns :
    Typed(heap, r, f, "err") /\ Do("map_error", <<Ref(r)>>, f, map_error(heap, r, f))

CallReplace == \E r \in ResultRefs(heap), v \in Nums :
    Do("replace", <<Ref(r), v>>, NoFn, replace(heap, r, v))

CallReplaceError == \E r \in ResultRefs(heap), v \in Nums :
    Do("replace_error", <<Ref(r), v>>, NoFn, replace_error(heap, r, v))

CallOr == \E l \in ResultRefs(heap), r \in ResultRefs(heap) :
    Do("or", <<Ref(l), Ref(r)>>, NoFn, or(heap, l, r))

CallResultThen == \E r \in ResultRefs(heap), f \in ResultThenFns(heap) :
    Typed(heap, r, f, "ok") /\ Do("result.then", <<Ref(r)>>, f, result_then(heap, r, f))

CallResultAll == \E l \in ResultLists(heap) :
    OptionRefs(heap) = {} /\ Do("result.all", <<Ref(l)>>, NoFn, result_all(heap, l))

CallSome == \E v \in Nums :
    ResultRefs(heap) = {} /\ Do("some", <<v>>, NoFn, Some(heap, v))

CallNone ==
    ResultRefs(heap) = {} /\ Do("none", <<>>, NoFn, None(heap))

CallIsSome == \E o \in OptionRefs(heap) :
    Do("is_some", <<Ref(o)>>, NoFn, Outcome(heap, Bool(is_some(heap, o)), <<>>, <<>>))

CallIsNone == \E o \in OptionRefs(heap) :
    Do("is_none", <<Ref(o)>>, NoFn, Outcome(heap, Bool(is_none(heap, o)), <<>>, <<>>))

CallOptionList ==
    /\ ResultRefs(heap) = {}
    /\ Len(heap) + 2 <= cap
    /\ \E items \in ListsOver(OptionRefs(heap)) :
          Do("option.list", items, NoFn, array_of(heap, items))

CallOptionUnwrap == \E o \in OptionRefs(heap), d \in Nums :
    Do("option.unwrap", <<Ref(o), d>>, NoFn, option_unwrap(heap, o, d))

CallOptionMap == \E o \in OptionRefs(heap), f \in MapFns :
    Typed(heap, o, f, "some") /\ Do("option.map", <<Ref(o)>>, f, option_map(heap, o, f))

CallOptionThen == \E o \in OptionRefs(heap), f \in OptionThenFns(heap) :
    Typed(heap, o, f, "some") /\ Do("option.then", <<Ref(o)>>, f, option_then(heap, o, f))

CallOptionAll == \E l \in OptionLists(heap) :
    ResultRefs(heap) = {} /\ Do("option.all", <<Ref(l)>>, NoFn, option_all(heap, l))

\* The client has looked at what the call returned and goes on.
Continue ==
    /\ call # Idle
    /\ call' = Idle
    /\ UNCHANGED <<heap, cap>>

Next ==
    \/ CallOk
    \/ CallErr
    \/ CallIsOk
    \/ CallIsErr
    \/ CallResultList
    \/ CallResultUnwrap
    \/ CallUnwrapError
    \/ CallResultMap
    \/ CallMapError
    \/ CallReplace
    \/ CallReplaceError
    \/ CallOr
    \/ CallResultThen
    \/ CallResultAll
    \/ CallSome
    \/ CallNone
    \/ CallIsSome
    \/ CallIsNone
    \/ CallOptionList
    \/ CallOptionUnwrap
    \/ CallOptionMap
    \/ CallOptionThen
    \/ CallOptionAll
    \/ Continue

Spec == Init /\ [][Next]_vars

\* ------------------------------------------------- `all` on its own
\* `all` is a pure function of its list: here the client starts out holding
\* a list literal of up to MaxLen instances fresh from the factories (the
\* elements, then the array of them), with room for what `all` returns.
ResultObjects == {[type |-> t, value |-> v] : t \in {"ok", "err"}, v \in Nums}

OptionObjects == {[type |-> "some", value |-> v] : v \in Nums} \cup {[type |-> "none"]}

Literal(elems) ==
    elems \o <<[type |-> "array", items |-> [i \in 1..Len(elems) |-> Ref(i)]]>>

InitAll ==
    \E n \in 0..MaxLen :
        \E elems \in [1..n -> ResultObjects] \cup [1..n -> OptionObjects] :
            /\ heap = Literal(elems)
            /\ call = Idle
            /\ cap = n + 3

NextAll ==
    \/ CallResultAll
    \/ CallOptionAll
    \/ Continue

SpecAll == InitAll /\ [][NextAll]_vars

\* ------------------------------------------------- a chain of calls
\* The client builds one instance with a factory and then hands what each
\* call returned to the next call, as in then(map(replace(r, v), f), g).
Started(op, args, out) ==
    /\ heap = out.heap
    /\ call = [op |-> op, args |-> args, fn |-> NoFn, ret |-> out.ret,
               calls |-> out.calls, rets |-> out.rets, pre |-> <<>>]
    /\ cap = MaxHeap

InitChain ==
    \/ \E v \in Nums : Started("ok", <<v>>, ok(<<>>, v))
    \/ \E v \in Nums : Started("err", <<v>>, err(<<>>, v))
    \/ \E v \in Nums : Started("some", <<v>>, Some(<<>>, v))
    \/ Started("none", <<>>, None(<<>>))

\* The instance the chain has reached: what the last call returned.
Cur == call.ret.ref

Chain(op, args, fn, out) ==
    /\ Len(out.heap) <= cap
    /\ heap' = out.heap
    /\ call' = [op |-> op, args |-> args, fn |-> fn, ret |-> out.ret,
                calls |-> out.calls, rets |-> out.rets, pre |-> heap]
    /\ UNCHANGED cap

ChainResultMap == \E f \in MapFns :
    /\ Cur \in ResultRefs(heap)
    /\ Typed(heap, Cur, f, "ok")
    /\ Chain("result.map", <<call.ret>>, f, result_map(heap, Cur, f))

ChainReplace == \E v \in Nums :
    /\ Cur \in ResultRefs(heap)
    /\ Chain("replace", <<call.ret, v>>, NoFn, replace(heap, Cur, v))

ChainResultThen == \E f \in ResultThenFns(heap) :
    /\ Cur \in ResultRefs(heap)
    /\ Typed(heap, Cur, f, "ok")
    /\ Chain("result.then", <<call.ret>>, f, result_then(heap, Cur, f))

ChainOptionMap == \E f \in MapFns :
    /\ Cur \in OptionRefs(heap)
    /\ Typed(heap, Cur, f, "some")
    /\ Chain("option.map", <<call.ret>>, f, option_map(heap, Cur, f))

ChainOptionThen == \E f \in OptionThenFns(heap) :
    /\ Cur \in OptionRefs(heap)
    /\ Typed(heap, Cur, f, "some")
    /\ Chain("option.then", <<call.ret>>, f, option_then(heap, Cur, f))

NextChain ==
    \/ ChainResultMap
    \/ ChainReplace
    \/ ChainResultThen
    \/ ChainOptionMap
    \/ ChainOptionThen

SpecChain == InitChain /\ [][NextChain]_vars

\* ------------------------------------------------------------ properties
\* The instance a call was made on, as it was when the call was made.
Arg(i) == call.pre[call.args[i].ref]

\* The instance a call returned.
Returned == heap[call.ret.ref]

\* Whether the returned instance did not exist before the call.
IsNew == call.ret.ref \notin DOMAIN call.pre

\* The elements of the list handed to `all`, as they were before the call.
Elements == [i \in DOMAIN Arg(1).items |-> call.pre[Arg(1).items[i].ref]]

First(S) == CHOOSE i \in S : \A j \in S : i <= j

\* The case in which each combinator invokes its callback.
MatchTag(op) ==
    CASE op = "result.map"  -> "ok"
      [] op = "result.then" -> "ok"
      [] op = "map_error"   -> "err"
      [] op = "option.map"  -> "some"
      [] op = "option.then" -> "some"

CallbackOps == {"result.map", "result.then", "map_error", "option.map", "option.then"}

\* C1: Result `all` gives Ok of the payloads in input order when no element
\* is Err (Ok([]) for the empty list), and otherwise Err of the payload of
\* the lowest-index Err element.
C1_ResultAll ==
    call.op = "result.all" =>
        LET errs == {i \in DOMAIN Elements : Elements[i].type = "err"}
        IN  IF errs = {}
            THEN /\ Returned.type = "ok"
                 /\ IsRef(Returned.value)
                 /\ heap[Returned.value.ref].type = "array"
                 /\ Len(heap[Returned.value.ref].items) = Len(Elements)
                 /\ \A i \in DOMAIN Elements :
                        heap[Returned.value.ref].items[i] = Elements[i].value
            ELSE /\ Returned.type = "err"
                 /\ Returned.value = Elements[First(errs)].value

\* `all` has been called on [Ok, Err(a), Err(b)] with a # b.
C1_Witness ==
    /\ call.op = "result.all"
    /\ Len(Elements) = 3
    /\ Elements[1].type = "ok"
    /\ Elements[2].type = "err"
    /\ Elements[3].type = "err"
    /\ Elements[2].value # Elements[3].value

\* C2: Option `all` gives Some of the values in input order when no element
\* is None (Some([]) for the empty list), and None when some element is None.
C2_OptionAll ==
    call.op = "option.all" =>
        IF \A i \in DOMAIN Elements : Elements[i].type = "some"
        THEN /\ Returned.type = "some"
             /\ IsRef(Returned.value)
             /\ heap[Returned.value.ref].type = "array"
             /\ Len(heap[Returned.value.ref].items) = Len(Elements)
             /\ \A i \in DOMAIN Elements :
                    heap[Returned.value.ref].items[i] = Elements[i].value
        ELSE Returned = [type |-> "none"]

\* `all` has been called on [Some, None, Some].
C2_Witness ==
    /\ call.op = "option.all"
    /\ Len(Elements) = 3
    /\ Elements[1].type = "some"
    /\ Elements[2].type = "none"
    /\ Elements[3].type = "some"

\* C3: one call of map / map_error / then invokes the callback exactly once,
\* with the held payload, in the matching case, and not at all in the other.
C3_CallbackOnce ==
    call.op \in CallbackOps =>
        call.calls = IF Arg(1).type = MatchTag(call.op) THEN <<Arg(1).value>> ELSE <<>>

\* map_error has been called on an Ok with a callback.
C3_Witness ==
    /\ call.op = "map_error"
    /\ Arg(1).type = "ok"
    /\ call.fn.name = "succ"

\* C4: on Err, map / replace / then return a Result with tag Err and the
\* same payload; on Ok, map_error / replace_error return tag Ok and the same
\* payload.
C4_PassThrough ==
    /\ call.op \in {"result.map", "replace", "result.then"} /\ Arg(1).type = "err"
           => Returned.type = "err" /\ Returned.value = Arg(1).value
    /\ call.op \in {"map_error", "replace_error"} /\ Arg(1).type = "ok"
           => Returned.type = "ok" /\ Returned.value = Arg(1).value

\* replace has been called on an Err with a value that is not its payload.
C4_Witness ==
    /\ call.op = "replace"
    /\ Arg(1).type = "err"
    /\ call.args[2] # Arg(1).value

Combinators ==
    {"result.unwrap", "unwrap_error", "result.map", "map_error", "replace",
     "replace_error", "or", "result.then", "result.all",
     "option.unwrap", "option.map", "option.then", "option.all"}

Transformers ==
    {"result.map", "map_error", "replace", "replace_error", "or", "result.then",
     "result.all", "option.map", "option.then", "option.all"}

\* C6 as stated: every transforming combinator returns an instance that did
\* not exist before the call, in either case of its input.
C6_AlwaysFresh ==
    call.op \in Transformers => IsNew

\* C6 as amended: the instance is new where the combinator builds one (the
\* matching case of the Result map / map_error / replace / replace_error,
\* Result `all`, and Option map, `all` and `then` on None); a Result handed
\* through is the argument itself; `or` returns one of its two arguments
\* itself; `then` in the matching case returns the instance the callback
\* returned.
C6_FreshWhereBuilt ==
    /\ call.op \in {"result.all", "option.all", "option.map"} => IsNew
    /\ call.op \in {"result.map", "replace"} =>
           IF Arg(1).type = "ok" THEN IsNew ELSE call.ret = call.args[1]
    /\ call.op \in {"map_error", "replace_error"} =>
           IF Arg(1).type = "err" THEN IsNew ELSE call.ret = call.args[1]
    /\ call.op = "or" =>
           call.ret = IF Arg(1).type = "ok" THEN call.args[1] ELSE call.args[2]
    /\ call.op = "result.then" =>
           call.ret = IF Arg(1).type = "ok" THEN call.rets[1] ELSE call.args[1]
    /\ call.op = "option.then" =>
           IF Arg(1).type = "some" THEN call.ret = call.rets[1] ELSE IsNew

\* replace has been called on an Err and has returned that very instance.
C6_Witness ==
    /\ call.op = "replace"
    /\ Arg(1).type = "err"
    /\ call.ret = call.args[1]

\* C7: `or` returns the tag and payload of left when left is Ok, and of
\* right otherwise.
C7_Or ==
    call.op = "or" =>
        Returned = IF Arg(1).type = "ok" THEN Arg(1) ELSE Arg(2)

\* `or` has been called on two Errs with different payloads.
C7_Witness ==
    /\ call.op = "or"
    /\ Arg(1).type = "err"
    /\ Arg(2).type = "err"
    /\ Arg(1).value # Arg(2).value

\* C8: `then` on Some(v) / Ok(v) is f(v) itself: the callback is called with
\* v and what it returns is what `then` returns, with nothing built around
\* it; `then` on None is None.
C8_Bind ==
    /\ call.op \in {"result.then", "option.then"} /\ Arg(1).type = MatchTag(call.op) =>
           LET f == CallFn(call.pre, call.fn, Arg(1).value)
           IN  call.ret = f.ret /\ heap = f.heap
    /\ call.op = "option.then" /\ Arg(1).type = "none" =>
           Returned = [type |-> "none"]

\* Option `then` has been called on a Some with a callback returning None.
C8_Witness ==
    /\ call.op = "option.then"
    /\ Arg(1).type = "some"
    /\ call.fn.name = "to_none"

\* C9: map on Some(v) / Ok(v) is Some(f(v)) / Ok(f(v)), map_error on Err(e)
\* is Err(f(e)), and Option map on None is None.
C9_Functor ==
    /\ call.op \in {"result.map", "map_error", "option.map"}
         /\ Arg(1).type = MatchTag(call.op) =>
           Returned = [type |-> Arg(1).type,
                       value |-> CallFn(call.pre, call.fn, Arg(1).value).ret]
    /\ call.op = "option.map" /\ Arg(1).type = "none" =>
           Returned = [type |-> "none"]

\* map_error has been called on an Err with a callback that changes it.
C9_Witness ==
    /\ call.op = "map_error"
    /\ Arg(1).type = "err"
    /\ Returned.value # Arg(1).value

\* C10: unwrap returns the payload of Some / Ok and the default otherwise;
\* unwrap_error returns the payload of Err and the default otherwise.
C10_Unwrap ==
    /\ call.op = "option.unwrap" =>
           call.ret = IF Arg(1).type = "some" THEN Arg(1).value ELSE call.args[2]
    /\ call.op = "result.unwrap" =>
           call.ret = IF Arg(1).type = "ok" THEN Arg(1).value ELSE call.args[2]
    /\ call.op = "unwrap_error" =>
           call.ret = IF Arg(1).type = "err" THEN Arg(1).value ELSE call.args[2]

\* Option unwrap has been called on Some(0) with a default other than 0.
C10_Witness ==
    /\ call.op = "option.unwrap"
    /\ Arg(1).type = "some"
    /\ Arg(1).value = Num(0)
    /\ call.args[2] # Num(0)

\* C11: replace on Ok(v) with u is Ok(u) and no function is called;
\* replace_error on Err(e) with u is Err(u); replace on Err(e) is Err(e).
C11_Replace ==
    /\ call.op = "replace" =>
           /\ Returned = IF Arg(1).type = "ok"
                         THEN [type |-> "ok", value |-> call.args[2]]
                         ELSE [type |-> "err", value |-> Arg(1).value]
           /\ call.calls = <<>>
    /\ call.op = "replace_error" /\ Arg(1).type = "err" =>
           /\ Returned = [type |-> "err", value |-> call.args[2]]
           /\ call.calls = <<>>

\* replace_error has been called on an Err with a value that is not its
\* payload.
C11_Witness ==
    /\ call.op = "replace_error"
    /\ Arg(1).type = "err"
    /\ call.args[2] # Arg(1).value

\* C12: every instance the client holds, built by a factory or returned by
\* any sequence of combinators, carries one of the two tags of its type;
\* exactly one of is_ok / is_err (is_some / is_none) is true of it, each
\* being the negation of the other and true of its own tag; and what a
\* factory returns passes the test of its case.
C12_Tags ==
    /\ \A a \in DOMAIN heap :
           \/ heap[a].type = "array"
           \/ /\ heap[a].type \in {"ok", "err"}
              /\ is_ok(heap, a) = (heap[a].type = "ok")
              /\ is_err(heap, a) = (heap[a].type = "err")
              /\ is_err(heap, a) = ~is_ok(heap, a)
           \/ /\ heap[a].type \in {"some", "none"}
              /\ is_some(heap, a) = (heap[a].type = "some")
              /\ is_none(heap, a) = (heap[a].type = "none")
              /\ is_none(heap, a) = ~is_some(heap, a)
    /\ call.op = "ok" => is_ok(heap, call.ret.ref) /\ ~is_err(heap, call.ret.ref)
    /\ call.op = "err" => is_err(heap, call.ret.ref) /\ ~is_ok(heap, call.ret.ref)
    /\ call.op = "some" => is_some(heap, call.ret.ref) /\ ~is_none(heap, call.ret.ref)
    /\ call.op = "none" => is_none(heap, call.ret.ref) /\ ~is_some(heap, call.ret.ref)
    /\ call.op = "is_ok" => call.ret = Bool(Arg(1).type = "ok")
    /\ call.op = "is_err" => call.ret = Bool(Arg(1).type = "err")
    /\ call.op = "is_some" => call.ret = Bool(Arg(1).type = "some")
    /\ call.op = "is_none" => call.ret = Bool(Arg(1).type = "none")

\* is_err has been called on the Ok that `all` returned (the only instances
\* holding an array are those `all` builds).
C12_Witness ==
    /\ call.op = "is_err"
    /\ Arg(1).type = "ok"
    /\ IsRef(Arg(1).value)
    /\ call.ret = Bool(FALSE)

\* C13: along a chain, once the value is Err(e) every further map / then /
\* replace leaves it Err(e) and invokes no callback, and once it is None
\* every further map / then leaves it None and invokes no callback; so a
\* chain started from Err(e) or None stays there however long it is.
C13_Absorbing ==
    [][/\ heap[Cur].type = "err" =>
              /\ heap'[call'.ret.ref] = heap[Cur]
              /\ call'.calls = <<>>
       /\ heap[Cur].type = "none" =>
              /\ heap'[call'.ret.ref] = [type |-> "none"]
              /\ call'.calls = <<>>]_vars

\* The chain started from None and has stayed there for two calls, the last
\* one a `then` whose callback would have returned a Some.
C13_Witness ==
    /\ Len(heap) = 3
    /\ \A a \in DOMAIN heap : heap[a] = [type |-> "none"]
    /\ call.op = "option.then"
    /\ call.fn.name = "some_succ"
    /\ call.calls = <<>>

====
